---- MODULE Spec2Model ----
(***************************************************************************)
(* fancontrol.cpp: PID fan controller for the IT8613E / IT8772E Super I/O  *)
(* chip.  The model follows main() statement group by statement group:     *)
(* argument parsing, iopl, the Super I/O unlock and EC discovery, the      *)
(* initial PWM write, and the polling loop (drive probes, CPU probe with   *)
(* its rolling average, time delta, PID step, PWM write, sleep).           *)
(*                                                                         *)
(* Numbers.  The C doubles kp, ki, kd and imax are kept as integer         *)
(* numerators over GainDen (halves); time is kept in clock ticks,          *)
(* TicksPerSec ticks to the second; the integral is kept as an integer     *)
(* numerator over IntDen = GainDen * TicksPerSec.  All comparisons and     *)
(* the final truncation are done exactly on numerators (real arithmetic    *)
(* in place of IEEE rounding; no NaN or infinity).                         *)
(*                                                                         *)
(* Text.  A C string is a sequence of one-character strings; atoi and      *)
(* fgets are modelled on those sequences.                                  *)
(*                                                                         *)
(* Telemetry.  The graphite socket is write-only; a group of guarded       *)
(* send_to_graphite calls is one Send, whose outcome (queued, SIGPIPE      *)
(* fatal, SIGPIPE ignored) is the environment's.                           *)
(***************************************************************************)
EXTENDS Integers, Sequences, FiniteSets, TLC

\* ------------------------------------------------------------------ bounds
MaxIter == 2

\* ------------------------------------------------------- numeric encoding
GainDen == 2
TicksPerSec == 2
IntDen == GainDen * TicksPerSec

Max(a, b) == IF a > b THEN a ELSE b
Min(a, b) == IF a < b THEN a ELSE b

\* C integer division and static_cast<int>: truncation toward zero (d > 0)
TruncDiv(n, d) == IF n >= 0 THEN n \div d ELSE -((-n) \div d)

\* conversion of an int to uint8_t
ToUint8(v) == v % 256
\* conversion of an int to unsigned short (the port argument of outb/inb)
ToUint16(v) == v % 65536

\* ------------------------------------------------------------- C strings
Digits == {"0", "1", "2", "3", "4", "5", "6", "7", "8", "9"}
DigitVal(c) ==
    CASE c = "0" -> 0 [] c = "1" -> 1 [] c = "2" -> 2 [] c = "3" -> 3
      [] c = "4" -> 4 [] c = "5" -> 5 [] c = "6" -> 6 [] c = "7" -> 7
      [] c = "8" -> 8 [] c = "9" -> 9
IsSpace(c) == c \in {" ", "\n", "\t"}

RECURSIVE SkipSpace(_)
SkipSpace(s) ==
    IF s # <<>> /\ IsSpace(Head(s)) THEN SkipSpace(Tail(s)) ELSE s

RECURSIVE ParseDigits(_, _)
ParseDigits(s, acc) ==
    IF s # <<>> /\ Head(s) \in Digits
    THEN ParseDigits(Tail(s), 10 * acc + DigitVal(Head(s)))
    ELSE acc

\* atoi: optional white space, optional sign, then the leading digits
atoi(str) ==
    LET s == SkipSpace(str)
    IN  IF s = <<>> THEN 0
        ELSE IF Head(s) = "-" THEN -ParseDigits(Tail(s), 0)
        ELSE IF Head(s) = "+" THEN ParseDigits(Tail(s), 0)
        ELSE ParseDigits(s, 0)

RECURSIVE FirstLine(_)
FirstLine(s) ==
    IF s = <<>> THEN <<>>
    ELSE IF Head(s) = "\n" THEN <<"\n">>
    ELSE <<Head(s)>> \o FirstLine(Tail(s))

\* fgets(buf, size, stream): at end of file the buffer is left as it was;
\* otherwise it receives at most size-1 characters of the first line
fgets(buf, size, stream) ==
    IF stream = <<>> THEN buf
    ELSE SubSeq(FirstLine(stream), 1, Min(size - 1, Len(FirstLine(stream))))

\* ------------------------------------------------- command line (main)
\* the file-scope defaults; kp, ki, imax, kd in halves (numerators over GainDen)
Defaults ==
    [setpoint |-> 37, pwminit |-> 128, interval |-> 10, overheat |-> 45,
     pwmmin |-> 80, kp |-> 50 * GainDen, ki |-> 1, imax |-> 255 * GainDen,
     kd |-> 0, cputemp_max_values |-> 10,
     graphite_server |-> FALSE, graphite_port |-> 0]

pwmmax == 255
port == 46
NoList == <<"(null)">>

IntOptions == {"setpoint", "pwminit", "interval", "overheat", "pwmmin",
               "kp", "ki", "imax", "kd", "cpu_avg"}

Opt(o, v) == [opt |-> o, val |-> v]
DL(s) == Opt("drive_list", s)

\* the argument vectors (argv[1..]) the runs start from: the default
\* configuration and single departures from it.  Numeric values are given
\* as the number atoi/atof returns (gains and imax in halves).
ArgVectors ==
    { <<>>,
      <<DL(<<"a">>)>>,
      <<DL(<<"a", ",", "b">>)>>,
      <<DL(<<>>)>>,
      <<Opt("setpoint", 40)>>,
      <<DL(<<"a">>), Opt("bogus", 0)>>,
      <<DL(<<"a">>), Opt("pwminit", 50)>>,
      <<DL(<<"a">>), Opt("pwmmin", 300)>>,
      <<DL(<<"a">>), Opt("kp", 1 * GainDen), Opt("kd", 1 * GainDen)>>,
      <<DL(<<"a">>), Opt("imax", (-5) * GainDen)>>,
      <<DL(<<"a">>), Opt("interval", 0), Opt("cpu_avg", 1)>>,
      <<DL(<<"a">>), Opt("cpu_avg", 2)>>,
      <<DL(<<"a">>), Opt("graphite_server", [colon |-> TRUE, port |-> 2003])>>,
      <<DL(<<"a">>), Opt("graphite_server", [colon |-> FALSE, port |-> 0])>> }

\* one turn of the option loop: the new configuration, or failure
ParseOne(a, c) ==
    CASE a.opt = "drive_list" -> [ok |-> TRUE, c |-> c, dl |-> a.val, setdl |-> TRUE]
      [] a.opt = "cpu_avg" ->
            [ok |-> TRUE, c |-> [c EXCEPT !.cputemp_max_values = a.val],
             dl |-> NoList, setdl |-> FALSE]
      [] a.opt \in IntOptions \ {"cpu_avg"} ->
            [ok |-> TRUE, c |-> [c EXCEPT ![a.opt] = a.val],
             dl |-> NoList, setdl |-> FALSE]
      [] a.opt = "graphite_server" ->
            IF a.val.colon
            THEN [ok |-> TRUE,
                  c |-> [c EXCEPT !.graphite_server = TRUE,
                                  !.graphite_port = a.val.port],
                  dl |-> NoList, setdl |-> FALSE]
            ELSE [ok |-> FALSE, c |-> c, dl |-> NoList, setdl |-> FALSE]
      [] OTHER -> [ok |-> FALSE, c |-> c, dl |-> NoList, setdl |-> FALSE]

RECURSIVE ParseArgs(_, _, _)
ParseArgs(args, c, dl) ==
    IF args = <<>> THEN [ok |-> TRUE, c |-> c, dl |-> dl]
    ELSE LET r == ParseOne(Head(args), c)
         IN  IF ~r.ok THEN [ok |-> FALSE, c |-> c, dl |-> dl]
             ELSE ParseArgs(Tail(args), r.c, IF r.setdl THEN r.dl ELSE dl)

\* ---------------------------------------------------- split_drive_names
RECURSIVE CountCommas(_)
CountCommas(s) ==
    IF s = <<>> THEN 0
    ELSE (IF Head(s) = "," THEN 1 ELSE 0) + CountCommas(Tail(s))

\* strtok(.., ","): the non-empty runs between commas
RECURSIVE Tokens(_, _)
Tokens(s, cur) ==
    IF s = <<>> THEN (IF cur = <<>> THEN <<>> ELSE <<cur>>)
    ELSE IF Head(s) = ","
         THEN (IF cur = <<>> THEN <<>> ELSE <<cur>>) \o Tokens(Tail(s), <<>>)
         ELSE Tokens(Tail(s), Append(cur, Head(s)))

\* a slot of the malloc'ed array that no token was stored in
Uninit == <<"(uninit)">>

\* count is 1 + the number of commas; drives[i] is set for each token only
split_drive_names(drive_list) ==
    LET n == 1 + CountCommas(drive_list)
        t == Tokens(drive_list, <<>>)
    IN  [count |-> n,
         drives |-> [k \in 1..n |-> IF k <= Len(t) THEN t[k] ELSE Uninit]]

\* ------------------------------------------------------------- port I/O
\* outb(val, port) and inb(port) as entries of the log of port accesses
OutB(v, p) == [op |-> "outb", val |-> v, port |-> ToUint16(p)]
InB(v, p) == [op |-> "inb", val |-> v, port |-> ToUint16(p)]

\* variant: index and data written to each other's port
iowriteSwapped(reg, val) == <<OutB(val, port), OutB(reg, port + 1)>>

iowrite(reg, val) == <<OutB(reg, port), OutB(val, port + 1)>>
ioread(reg, got) == <<OutB(reg, port), InB(got, port + 1)>>
ecwrite(bar, reg, val) == <<OutB(reg, bar + 5), OutB(val, bar + 6)>>

\* the bytes the chip answers for registers 0x60 / 0x61 (base 0x0a30)
EcBarHigh == {10}
EcBarLow == {48}

EcRegs == {107, 115, 22, 23}
Unwritten == -1

\* ------------------------------------------------- calculate_new_pwm
\* variant: the integral clamp with the lower limit left out
ClampIntegralUpperOnly(v, lim) ==
    IF v > lim THEN lim ELSE v

\* anti-windup clamp of the integral (numerators over IntDen)
ClampIntegral(v, lim) ==
    IF v > lim THEN lim ELSE IF v < -lim THEN -lim ELSE v

\* variant: the output clamp with the floor left out
ClampOutputNoFloor(num, den, lo) ==
    IF num > pwmmax * den THEN pwmmax ELSE TruncDiv(num, den)

\* output clamp and static_cast<int>: num / den is newPWM_double
ClampOutput(num, den, lo) ==
    IF num > pwmmax * den THEN pwmmax
    ELSE IF num < lo * den THEN lo
    ELSE TruncDiv(num, den)

\* variant: the output computed from the integral as it was before the call
calculate_new_pwm_stale_integral(err, dt, integ, prev, c) ==
    LET integ2 == ClampIntegral(integ + err * dt * GainDen, c.imax * TicksPerSec)
        den == GainDen * IntDen * dt
        num == c.pwminit * den
               + c.kp * err * IntDen * dt
               + c.ki * integ * dt
               + c.kd * (err - prev) * TicksPerSec * IntDen
    IN  [integral |-> integ2, prev_error |-> err,
         newPWM |-> ClampOutput(num, den, c.pwmmin)]

\* err: the error (an integer), dt: timediff in ticks, integ: the integral
\* over IntDen, prev: prev_error, c: the configuration
calculate_new_pwm(err, dt, integ, prev, c) ==
    LET integ2 == ClampIntegral(integ + err * dt * GainDen, c.imax * TicksPerSec)
        den == GainDen * IntDen * dt
        num == c.pwminit * den
               + c.kp * err * IntDen * dt
               + c.ki * integ2 * dt
               + c.kd * (err - prev) * TicksPerSec * IntDen
    IN  [integral |-> integ2, prev_error |-> err,
         newPWM |-> ClampOutput(num, den, c.pwmmin)]

\* ------------------------------------------------------------ the probes
\* what "smartctl ... | awk" prints for a drive: a temperature, or nothing
DriveStreams == { <<"4", "0", "\n">>, <<>> }
\* what "sensors | grep | awk" prints: a temperature, or nothing
CpuStreams == { <<"5", "0", "\n">>, <<"7", "0", "\n">>, <<>> }
\* what a character array that was never written may be read as
IndeterminateText == { <<>>, <<"5", "5">> }
\* ticks the probes of one iteration take
ProbeTicks == {0, 1}

TextOf(buf) == IF buf = Uninit THEN IndeterminateText ELSE {buf}

\* variant: the rolling average whose count goes on growing when full
RollingInsertCountUnbounded(vals, idx, cnt, sum, cap, cputemp) ==
    LET full == ~(cnt < cap)
        sum2 == IF full THEN sum - vals[idx] + cputemp ELSE sum + cputemp
        vals2 == IF full THEN [vals EXCEPT ![idx] = cputemp]
                 ELSE [vals EXCEPT ![cnt] = cputemp]
        cnt2 == cnt + 1
    IN  [values |-> vals2, index |-> (idx + 1) % cap, count |-> cnt2,
         sum |-> sum2, avg |-> TruncDiv(sum2, cnt2)]

\* variant: the rolling average whose sum keeps the overwritten sample
RollingInsertNoEvict(vals, idx, cnt, sum, cap, cputemp) ==
    LET full == ~(cnt < cap)
        sum2 == sum + cputemp
        vals2 == IF full THEN [vals EXCEPT ![idx] = cputemp]
                 ELSE [vals EXCEPT ![cnt] = cputemp]
        cnt2 == IF full THEN cnt ELSE cnt + 1
    IN  [values |-> vals2, index |-> (idx + 1) % cap, count |-> cnt2,
         sum |-> sum2, avg |-> TruncDiv(sum2, cnt2)]

\* the rolling average of the CPU temperature, lines 359-375
RollingInsert(vals, idx, cnt, sum, cap, cputemp) ==
    LET full == ~(cnt < cap)
        sum2 == IF full THEN sum - vals[idx] + cputemp ELSE sum + cputemp
        vals2 == IF full THEN [vals EXCEPT ![idx] = cputemp]
                 ELSE [vals EXCEPT ![cnt] = cputemp]
        cnt2 == IF full THEN cnt ELSE cnt + 1
    IN  [values |-> vals2, index |-> (idx + 1) % cap, count |-> cnt2,
         sum |-> sum2, avg |-> TruncDiv(sum2, cnt2)]

\* variant: the CPU average combined without the 20 degree offset
CombineCpuNoOffset(mt, avg) == IF avg > mt THEN avg ELSE mt

\* "if (cpu_avg_temp - 20 > maxtemp) maxtemp = cpu_avg_temp - 20", line 377
CombineCpu(mt, avg) == IF avg - 20 > mt THEN avg - 20 ELSE mt

\* "if (temp > maxtemp) maxtemp = temp", line 337
CombineDrive(mt, temp) == IF temp > mt THEN temp ELSE mt

\* variant: no skip test at all
SkipIterationNever(dt) == FALSE

\* variant: the skip test on a negative delta only
SkipIterationNegative(dt) == dt < 0

\* "if (timediff == 0)", line 396
SkipIteration(dt) == dt = 0

\* the value a sample leaves in the window of the cap latest samples
Latest(win, cap, x) ==
    IF Len(win) < cap THEN Append(win, x) ELSE Append(Tail(win), x)

\* ------------------------------------------------------------------ state
VARIABLES
    pc,               \* the statement main() is at
    argv,             \* the command line
    cfg,              \* the file-scope configuration variables
    drives, count,    \* the drive array and its length
    iopl_ret,         \* what iopl(3) returned (the code discards it)
    iopl_level,       \* the I/O privilege level of the process
    io,               \* the port accesses executed so far
    ecbar,            \* the EC base address
    ecreg,            \* the value last written to each EC register
    pwm,              \* uint8_t pwm
    integral, prev_error, error, newPWM,
    clock,            \* CLOCK_MONOTONIC, in ticks
    lasttime, curtime, timediff,
    maxtemp, i, tempstring,
    cputempstring, cputemp_values, cputemp_index, cputemp_count,
    cputemp_sum, cpu_avg_temp,
    graphite_sockfd,
    conn,             \* the telemetry connection: none, open, or epipe
                      \* once a send has found it reset by the peer
    sent,             \* number of messages handed to send()
    iter,             \* iterations begun
    pidcalls,         \* calls of calculate_new_pwm that returned
    readings,         \* this iteration's drive probes, in order: whether
                      \* popen started the probe, whether it printed a line,
                      \* whether tempstring had been written before, and
                      \* the temperature taken for the drive
    cpuread,          \* this iteration inserted a CPU reading
    recent,           \* the latest CPU readings, oldest first
    inserts           \* CPU readings inserted so far

cfgv == <<argv, cfg, drives, count>>
hwv == <<iopl_ret, iopl_level, io, ecbar, ecreg, pwm>>
pidv == <<integral, prev_error, error, newPWM, pidcalls>>
timev == <<clock, lasttime, curtime, timediff>>
drvv == <<i, tempstring, readings>>
cpuv == <<cputempstring, cputemp_values, cputemp_index, cputemp_count,
          cputemp_sum, cpu_avg_temp, cpuread, recent, inserts>>
netv == <<graphite_sockfd, conn, sent>>
vars == <<pc, cfgv, hwv, pidv, timev, drvv, cpuv, netv, maxtemp, iter>>

Init ==
    /\ pc = "start"
    /\ argv \in ArgVectors
    /\ cfg = Defaults
    /\ drives = <<>> /\ count = 0
    /\ iopl_ret = 0 /\ iopl_level = 0
    /\ io = <<>>
    /\ ecbar = 0
    /\ ecreg = [r \in EcRegs |-> Unwritten]
    /\ pwm = 0
    /\ integral = 0 /\ prev_error = 0 /\ error = 0 /\ newPWM = 0
    /\ clock = 0 /\ lasttime = 0 /\ curtime = 0 /\ timediff = 0
    /\ maxtemp = 0 /\ i = 0 /\ tempstring = Uninit
    /\ cputempstring = Uninit
    /\ cputemp_values = <<>>
    /\ cputemp_index = 0 /\ cputemp_count = 0 /\ cputemp_sum = 0
    /\ cpu_avg_temp = 0
    /\ graphite_sockfd = -1
    /\ conn = "none"
    /\ sent = 0
    /\ iter = 0 /\ pidcalls = 0
    /\ readings = <<>> /\ cpuread = FALSE
    /\ recent = <<>> /\ inserts = 0

\* send_to_graphite is called n times where "graphite_sockfd > 0" guards it
Sent(n) == IF graphite_sockfd > 0 THEN sent + n ELSE sent

\* a group of n guarded send_to_graphite calls, after which main goes on at
\* nextpc.  send(sockfd, message, len, 0) either queues the data, or finds
\* that the peer has reset the connection (its answer to data sent after
\* it closed) and raises SIGPIPE (no MSG_NOSIGNAL).  The code installs no handler, so the disposition is the
\* inherited one: by default the process is terminated; with the signal
\* ignored send returns -1, which is not read, and since the process lived
\* on, later sends fail the same way.
Send(n, nextpc) ==
    /\ sent' = Sent(n)
    /\ IF graphite_sockfd > 0 /\ conn = "open"
       THEN \/ conn' = "open" /\ pc' = nextpc
            \/ sent > 0 /\ conn' = "epipe" /\ pc' = "sigpipe"
            \/ sent > 0 /\ conn' = "epipe" /\ pc' = nextpc
       ELSE conn' = conn /\ pc' = nextpc

\* lines 170-234: argc check, option loop, drive_list check, split
Parse ==
    /\ pc = "start"
    /\ LET r == ParseArgs(argv, cfg, NoList)
       IN  IF argv = <<>> \/ ~r.ok \/ r.dl = NoList
           THEN /\ pc' = "exit"
                /\ cfg' = (IF argv = <<>> THEN cfg ELSE r.c)
                /\ UNCHANGED <<drives, count>>
           ELSE LET d == split_drive_names(r.dl)
                IN  /\ cfg' = r.c
                    /\ drives' = d.drives
                    /\ count' = d.count
                    /\ pc' = IF d.count = 0 THEN "exit" ELSE "iopl"
    /\ UNCHANGED <<argv, hwv, pidv, timev, drvv, cpuv, netv, maxtemp, iter>>

\* line 237: iopl(3); the kernel grants or denies, the result is not read
Iopl ==
    /\ pc = "iopl"
    /\ \E granted \in BOOLEAN :
          /\ iopl_ret' = (IF granted THEN 0 ELSE -1)
          /\ iopl_level' = (IF granted THEN 3 ELSE iopl_level)
    /\ pc' = "unlock"
    /\ UNCHANGED <<cfgv, io, ecbar, ecreg, pwm, pidv, timev, drvv, cpuv, netv,
                   maxtemp, iter>>

\* lines 240-243: the unlock bytes.  Without I/O privilege the first outb
\* raises a general protection fault and the process is killed (SIGSEGV).
Unlock ==
    /\ pc = "unlock"
    /\ IF iopl_level < 3
       THEN /\ io' = Append(io, [op |-> "fault", val |-> 135, port |-> port])
            /\ pc' = "killed"
       ELSE /\ io' = io \o <<OutB(135, port), OutB(1, port),
                             OutB(85, port), OutB(85, port)>>
            /\ pc' = "ldn"
    /\ UNCHANGED <<cfgv, iopl_ret, iopl_level, ecbar, ecreg, pwm, pidv, timev,
                   drvv, cpuv, netv, maxtemp, iter>>

\* line 255: iowrite(0x07, 0x04)
SelectLdn ==
    /\ pc = "ldn"
    /\ io' = io \o iowrite(7, 4)
    /\ pc' = "activate"
    /\ UNCHANGED <<cfgv, iopl_ret, iopl_level, ecbar, ecreg, pwm, pidv, timev,
                   drvv, cpuv, netv, maxtemp, iter>>

\* line 258: iowrite(0x30, 0x01)
Activate ==
    /\ pc = "activate"
    /\ io' = io \o iowrite(48, 1)
    /\ pc' = "ecbar"
    /\ UNCHANGED <<cfgv, iopl_ret, iopl_level, ecbar, ecreg, pwm, pidv, timev,
                   drvv, cpuv, netv, maxtemp, iter>>

\* line 261: ecbar = (ioread(0x60) << 8) + ioread(0x61); the two calls are
\* unsequenced operands of +, so either may run first
ReadEcbar ==
    /\ pc = "ecbar"
    /\ \E hi \in EcBarHigh, lo \in EcBarLow, highFirst \in BOOLEAN :
          /\ io' = (IF highFirst
                    THEN io \o ioread(96, hi) \o ioread(97, lo)
                    ELSE io \o ioread(97, lo) \o ioread(96, hi))
          /\ ecbar' = ToUint16(hi * 256 + lo)
    /\ pc' = "pwminit"
    /\ UNCHANGED <<cfgv, iopl_ret, iopl_level, ecreg, pwm, pidv, timev,
                   drvv, cpuv, netv, maxtemp, iter>>

\* lines 264-266: uint8_t pwm = pwminit, written to 0x6b and 0x73
InitPwm ==
    /\ pc = "pwminit"
    /\ pwm' = ToUint8(cfg.pwminit)
    /\ io' = io \o ecwrite(ecbar, 107, pwm') \o ecwrite(ecbar, 115, pwm')
    /\ ecreg' = [ecreg EXCEPT ![107] = pwm', ![115] = pwm']
    /\ pc' = "swmode"
    /\ UNCHANGED <<cfgv, iopl_ret, iopl_level, ecbar, pidv, timev,
                   drvv, cpuv, netv, maxtemp, iter>>

\* lines 269-270: software operation
SoftwareMode ==
    /\ pc = "swmode"
    /\ io' = io \o ecwrite(ecbar, 22, 0) \o ecwrite(ecbar, 23, 0)
    /\ ecreg' = [ecreg EXCEPT ![22] = 0, ![23] = 0]
    /\ pc' = "setup"
    /\ UNCHANGED <<cfgv, iopl_ret, iopl_level, ecbar, pwm, pidv, timev,
                   drvv, cpuv, netv, maxtemp, iter>>

\* lines 272-315: the loop's locals, the rolling buffer (calloc), the
\* graphite socket (any of socket, inet_pton, connect may fail) and the
\* first clock_gettime
Setup ==
    /\ pc = "setup"
    /\ integral' = 0 /\ prev_error' = 0 /\ error' = 0
    /\ timediff' = 0 /\ maxtemp' = 0
    /\ cputemp_values' = [k \in 0..(cfg.cputemp_max_values - 1) |-> 0]
    /\ cputemp_index' = 0 /\ cputemp_count' = 0 /\ cputemp_sum' = 0
    /\ cpu_avg_temp' = 0
    /\ IF cfg.graphite_server
       THEN \E fd \in {-1, 3} : graphite_sockfd' = fd
       ELSE graphite_sockfd' = -1
    /\ conn' = (IF graphite_sockfd' > 0 THEN "open" ELSE "none")
    /\ lasttime' = clock
    /\ pc' = "loop"
    /\ UNCHANGED <<cfgv, hwv, newPWM, pidcalls, clock, curtime, drvv,
                   cputempstring, cpuread, recent, inserts, sent, iter>>

\* line 319: the top of "while (true)"
LoopTop ==
    /\ pc = "loop"
    /\ iter < MaxIter
    /\ iter' = iter + 1
    /\ maxtemp' = 0
    /\ i' = 1
    /\ readings' = <<>>
    /\ cpuread' = FALSE
    /\ pc' = "drive"
    /\ UNCHANGED <<cfgv, hwv, pidv, timev, tempstring, cputempstring,
                   cputemp_values, cputemp_index, cputemp_count, cputemp_sum,
                   cpu_avg_temp, recent, inserts, netv>>

\* what the pipe of drive d delivers: a slot never assigned names no drive
StreamsOf(d) == IF d = Uninit THEN { <<>> } ELSE DriveStreams

\* lines 324-348: one turn of the drive loop (drives[i-1] in the source).
\* tempstring is not cleared before fgets and keeps its bytes from one
\* iteration of while to the next (same stack slot).  Passing a pointer
\* that was never assigned to snprintf's %s may also kill the process.
DriveProbe ==
    /\ pc = "drive"
    /\ i <= count
    /\ \/ /\ drives[i] = Uninit
          /\ pc' = "killed"
          /\ UNCHANGED <<i, tempstring, readings, maxtemp, sent, conn>>
       \/ /\ i' = i + 1
          /\ \/ /\ readings' = Append(readings,
                        [started |-> FALSE, reported |-> FALSE,
                         written |-> tempstring # Uninit, temp |-> 0])
                /\ pc' = (IF i = count THEN "cpu" ELSE "drive")
                /\ UNCHANGED <<tempstring, maxtemp, sent, conn>>
             \/ \E s \in StreamsOf(drives[i]) :
                   /\ tempstring' = fgets(tempstring, 20, s)
                   /\ \E txt \in TextOf(tempstring') :
                         LET temp == atoi(txt)
                         IN  /\ maxtemp' = CombineDrive(maxtemp, temp)
                             /\ readings' = Append(readings,
                                    [started |-> TRUE, reported |-> s # <<>>,
                                     written |-> tempstring # Uninit,
                                     temp |-> temp])
                   /\ Send(1, IF i = count THEN "cpu" ELSE "drive")
    /\ UNCHANGED <<cfgv, hwv, pidv, timev, cpuv, graphite_sockfd, iter>>

\* variant: a CPU probe that could not be started applies the stored average
CpuProbeStaleAverage ==
    /\ pc = "cpu"
    /\ \E d \in ProbeTicks : clock' = clock + d
    /\ \/ /\ maxtemp' = CombineCpu(maxtemp, cpu_avg_temp)
          /\ UNCHANGED <<cputempstring, cputemp_values, cputemp_index,
                         cputemp_count, cputemp_sum, cpu_avg_temp, cpuread,
                         recent, inserts>>
       \/ \E s \in CpuStreams :
             /\ cputempstring' = fgets(cputempstring, 10, s)
             /\ \E txt \in TextOf(cputempstring') :
                   LET cputemp == atoi(txt)
                       r == RollingInsert(cputemp_values, cputemp_index,
                                          cputemp_count, cputemp_sum,
                                          cfg.cputemp_max_values, cputemp)
                   IN  /\ cputemp_values' = r.values
                       /\ cputemp_index' = r.index
                       /\ cputemp_count' = r.count
                       /\ cputemp_sum' = r.sum
                       /\ cpu_avg_temp' = r.avg
                       /\ maxtemp' = CombineCpu(maxtemp, r.avg)
                       /\ recent' = Latest(recent, cfg.cputemp_max_values, cputemp)
                       /\ inserts' = inserts + 1
             /\ cpuread' = TRUE
    /\ Send(1, "timing")
    /\ UNCHANGED <<cfgv, hwv, pidv, lasttime, curtime, timediff, drvv,
                   graphite_sockfd, iter>>

\* lines 350-389: the CPU probe, the rolling average, the 20 degree offset
\* and the maxtemp message; the probes of the iteration take d ticks
CpuProbe ==
    /\ pc = "cpu"
    /\ \E d \in ProbeTicks : clock' = clock + d
    /\ \/ /\ UNCHANGED <<cputempstring, cputemp_values, cputemp_index,
                         cputemp_count, cputemp_sum, cpu_avg_temp, cpuread,
                         recent, inserts, maxtemp>>
       \/ \E s \in CpuStreams :
             /\ cputempstring' = fgets(cputempstring, 10, s)
             /\ \E txt \in TextOf(cputempstring') :
                   LET cputemp == atoi(txt)
                       r == RollingInsert(cputemp_values, cputemp_index,
                                          cputemp_count, cputemp_sum,
                                          cfg.cputemp_max_values, cputemp)
                   IN  /\ cputemp_values' = r.values
                       /\ cputemp_index' = r.index
                       /\ cputemp_count' = r.count
                       /\ cputemp_sum' = r.sum
                       /\ cpu_avg_temp' = r.avg
                       /\ maxtemp' = CombineCpu(maxtemp, r.avg)
                       /\ recent' = Latest(recent, cfg.cputemp_max_values, cputemp)
                       /\ inserts' = inserts + 1
             /\ cpuread' = TRUE
    /\ Send(1, "timing")
    /\ UNCHANGED <<cfgv, hwv, pidv, lasttime, curtime, timediff, drvv,
                   graphite_sockfd, iter>>

\* lines 392-403: the time since the last poll
Timing ==
    /\ pc = "timing"
    /\ curtime' = clock
    /\ timediff' = clock - lasttime
    /\ IF SkipIteration(timediff')
       THEN /\ pc' = "sleep_skip"
            /\ UNCHANGED lasttime
       ELSE /\ pc' = "pid"
            /\ lasttime' = clock
    /\ UNCHANGED <<cfgv, hwv, pidv, clock, drvv, cpuv, netv, maxtemp, iter>>

\* lines 397-398: sleep(interval); continue
SleepSkip ==
    /\ pc = "sleep_skip"
    /\ clock' = clock + cfg.interval * TicksPerSec
    /\ pc' = "loop"
    /\ UNCHANGED <<cfgv, hwv, pidv, lasttime, curtime, timediff, drvv, cpuv,
                   netv, maxtemp, iter>>

\* variant: the PID step without the assignment "pwm = newPWM"
PidKeepsPwm ==
    /\ pc = "pid"
    /\ error' = maxtemp - cfg.setpoint
    /\ Send(3, "write")
    /\ LET r == calculate_new_pwm(error', timediff, integral, prev_error, cfg)
       IN  /\ integral' = r.integral
           /\ prev_error' = r.prev_error
           /\ IF pc' = "sigpipe"
              THEN UNCHANGED <<newPWM, pidcalls>>
              ELSE /\ newPWM' = r.newPWM
                   /\ pidcalls' = pidcalls + 1
    /\ UNCHANGED <<cfgv, iopl_ret, iopl_level, io, ecbar, ecreg, pwm, timev,
                   drvv, cpuv, graphite_sockfd, maxtemp, iter>>

\* lines 406-417: the error, calculate_new_pwm (with its three messages)
\* and "pwm = newPWM"; pidcalls counts the calls that returned
Pid ==
    /\ pc = "pid"
    /\ error' = maxtemp - cfg.setpoint
    /\ Send(3, "write")
    /\ LET r == calculate_new_pwm(error', timediff, integral, prev_error, cfg)
       IN  /\ integral' = r.integral
           /\ prev_error' = r.prev_error
           /\ IF pc' = "sigpipe"
              THEN UNCHANGED <<newPWM, pwm, pidcalls>>
              ELSE /\ newPWM' = r.newPWM
                   /\ pwm' = ToUint8(r.newPWM)
                   /\ pidcalls' = pidcalls + 1
    /\ UNCHANGED <<cfgv, iopl_ret, iopl_level, io, ecbar, ecreg, timev, drvv,
                   cpuv, graphite_sockfd, maxtemp, iter>>

\* variant: both writes of the loop go to register 0x6b
WritePwmOneChannel ==
    /\ pc = "write"
    /\ io' = io \o ecwrite(ecbar, 107, pwm) \o ecwrite(ecbar, 107, pwm)
    /\ ecreg' = [ecreg EXCEPT ![107] = pwm]
    /\ Send(2, "sleep")
    /\ UNCHANGED <<cfgv, iopl_ret, iopl_level, ecbar, pwm, pidv, timev, drvv,
                   cpuv, graphite_sockfd, maxtemp, iter>>

\* lines 420-434: the PWM registers and the pwm / cpu_avg_temp messages
WritePwm ==
    /\ pc = "write"
    /\ io' = io \o ecwrite(ecbar, 107, pwm) \o ecwrite(ecbar, 115, pwm)
    /\ ecreg' = [ecreg EXCEPT ![107] = pwm, ![115] = pwm]
    /\ Send(2, "sleep")
    /\ UNCHANGED <<cfgv, iopl_ret, iopl_level, ecbar, pwm, pidv, timev, drvv,
                   cpuv, graphite_sockfd, maxtemp, iter>>

\* line 437: sleep(interval)
Sleep ==
    /\ pc = "sleep"
    /\ clock' = clock + cfg.interval * TicksPerSec
    /\ pc' = "loop"
    /\ UNCHANGED <<cfgv, hwv, pidv, lasttime, curtime, timediff, drvv, cpuv,
                   netv, maxtemp, iter>>

Next ==
    \/ Parse \/ Iopl \/ Unlock \/ SelectLdn \/ Activate \/ ReadEcbar
    \/ InitPwm \/ SoftwareMode \/ Setup
    \/ LoopTop \/ DriveProbe \/ CpuProbe \/ Timing \/ SleepSkip
    \/ Pid \/ WritePwm \/ Sleep

Spec == Init /\ [][Next]_vars

\* ================================================================ claims

RECURSIVE SeqSum(_)
SeqSum(q) == IF q = <<>> THEN 0 ELSE Head(q) + SeqSum(Tail(q))

RECURSIVE SeqMax(_)
SeqMax(q) == IF q = <<>> THEN 0 ELSE Max(Head(q), SeqMax(Tail(q)))

InLoop == pc \in {"loop", "drive", "cpu", "timing", "sleep_skip", "pid",
                  "write", "sleep"}

\* the duty values written to the PWM output registers 0x6b and 0x73: the
\* data bytes that follow the selection of 107 or 115 on the EC index port
DutyWrites ==
    { k \in 1..(Len(io) - 1) :
        /\ io[k].op = "outb" /\ io[k].port = ToUint16(ecbar + 5)
        /\ io[k].val \in {107, 115}
        /\ io[k + 1].op = "outb" /\ io[k + 1].port = ToUint16(ecbar + 6) }

\* ---- C1 ----------------------------------------------------------------
\* C1 as stated: the value returned by every call of calculate_new_pwm lies
\* in [pwmmin, pwmmax].
C1_Original ==
    pidcalls > 0 => (cfg.pwmmin <= newPWM /\ newPWM <= pwmmax)

\* C1 as amended: when the configured pwmmin does not exceed pwmmax (255),
\* the value returned by every call of calculate_new_pwm lies in
\* [pwmmin, pwmmax].
C1_OutputInRange ==
    (pidcalls > 0 /\ cfg.pwmmin <= pwmmax)
        => (cfg.pwmmin <= newPWM /\ newPWM <= pwmmax)

\* a second call has returned a value held up at the floor
C1_Witness ==
    pc = "write" /\ pidcalls > 1 /\ cfg.pwmmin <= pwmmax /\ newPWM = cfg.pwmmin

\* ---- C2 ----------------------------------------------------------------
\* C2 as stated: after every call of calculate_new_pwm the integral lies in
\* [-imax, +imax].
C2_Original ==
    pidcalls > 0 =>
        /\ -(cfg.imax * TicksPerSec) <= integral
        /\ integral <= cfg.imax * TicksPerSec

\* C2 as amended: when the configured imax is not negative, the integral
\* lies in [-imax, +imax] after every call of calculate_new_pwm.
C2_IntegralBounded ==
    (pidcalls > 0 /\ cfg.imax >= 0) =>
        /\ -(cfg.imax * TicksPerSec) <= integral
        /\ integral <= cfg.imax * TicksPerSec

\* the integral has been held at -imax by a second call
C2_Witness ==
    /\ pc = "write" /\ pidcalls > 1 /\ cfg.imax > 0
    /\ integral = -(cfg.imax * TicksPerSec)

\* ---- C3 ----------------------------------------------------------------
\* C3: every duty value written to registers 0x6b and 0x73, at startup and
\* in every iteration, is at least pwmmin and at most 255.
C3_DutyNeverBelowFloor ==
    \A k \in DutyWrites :
        cfg.pwmmin <= io[k + 1].val /\ io[k + 1].val <= 255

\* ---- C4 ----------------------------------------------------------------
\* C4: an iteration whose effective maximum temperature is above the
\* overheat threshold writes 255 to both PWM registers.
C4_OverheatFullSpeed ==
    (pc = "sleep" /\ maxtemp > cfg.overheat)
        => (pwm = 255 /\ ecreg[107] = 255 /\ ecreg[115] = 255)

TempsOf(rs) == [k \in 1..Len(rs) |-> rs[k].temp]

C6_EffectiveTemperature ==
    LET m == Max(SeqMax(TempsOf(readings)),
                 TruncDiv(SeqSum(recent), Len(recent)) - 20)
    IN  (/\ pc \in {"timing", "sleep_skip", "pid", "write", "sleep"}
         /\ cpuread
         /\ \A k \in 1..Len(readings) : readings[k].temp >= 0)
        => /\ maxtemp = m
           /\ pc \in {"write", "sleep"} => error = m - cfg.setpoint

\* the CPU average minus 20 exceeded a non-zero drive maximum and was used
C6_Witness ==
    /\ pc = "write" /\ cpuread
    /\ SeqMax(TempsOf(readings)) = 40
    /\ cpu_avg_temp - 20 > 40
    /\ error = cpu_avg_temp - 20 - cfg.setpoint

\* ---- C7 ----------------------------------------------------------------
\* C7: a drive that fails to report in an iteration (its probe could not be
\* started, or printed nothing) has the reading 0 in that iteration,
\* whatever a drive reported earlier in the iteration or in an earlier
\* iteration (stated for the probes made once the text buffer has been
\* written by an earlier report).
C7_FailedDriveReadsZero ==
    \A k \in 1..Len(readings) :
        (~readings[k].reported /\ readings[k].written)
            => readings[k].temp = 0

\* ---- C8 ----------------------------------------------------------------
\* C8: an iteration whose time delta is 0 leaves integral, prev_error,
\* lasttime and the PWM registers as they were and does not call the PID
\* step; it sleeps for interval and the loop starts a new iteration.
C8_SkipLeavesStateAlone ==
    [][ /\ (pc = "timing" /\ clock = lasttime)
            => /\ pc' = "sleep_skip"
               /\ UNCHANGED <<integral, prev_error, lasttime, ecreg, io, pwm,
                              newPWM, pidcalls>>
        /\ pc = "sleep_skip"
            => /\ pc' = "loop"
               /\ clock' = clock + cfg.interval * TicksPerSec
               /\ UNCHANGED <<integral, prev_error, lasttime, ecreg, io, pwm,
                              newPWM, pidcalls>>
        /\ pc = "loop" => (pc' = "drive" /\ iter' = iter + 1)
      ]_vars

\* an iteration is being skipped after an earlier one ran the PID step
C8_Witness ==
    /\ pc = "sleep_skip" /\ timediff = 0
    /\ pidcalls > 0 /\ integral # 0 /\ ecreg[107] = pwm

\* ---- C9 ----------------------------------------------------------------
\* the accesses that go to neither the index port nor the data port of the
\* Super I/O configuration space, i.e. the EC accesses
EcAccesses == { k \in 1..Len(io) : io[k].port \notin {46, 47} }

\* what the session order allows as the k-th port access e of a run, given
\* the log and the base address after the step: the unlock bytes (1-4),
\* LDN 4 (5-6), activation (7-8), 0x60 and 0x61 read back in either order
\* (9-12), and from then on writes to bar+5 / bar+6 only.  A first outb
\* that faults for lack of privilege is no access.
Allowed(k, e, log, bar) ==
    CASE k = 1 -> e.op = "fault" \/ e = [op |-> "outb", val |-> 135, port |-> 46]
      [] k = 2 -> e = [op |-> "outb", val |-> 1, port |-> 46]
      [] k \in {3, 4} -> e = [op |-> "outb", val |-> 85, port |-> 46]
      [] k = 5 -> e = [op |-> "outb", val |-> 7, port |-> 46]
      [] k = 6 -> e = [op |-> "outb", val |-> 4, port |-> 47]
      [] k = 7 -> e = [op |-> "outb", val |-> 48, port |-> 46]
      [] k = 8 -> e = [op |-> "outb", val |-> 1, port |-> 47]
      [] k = 9 -> e.op = "outb" /\ e.port = 46 /\ e.val \in {96, 97}
      [] k = 11 -> /\ e.op = "outb" /\ e.port = 46 /\ e.val \in {96, 97}
                   /\ e.val # log[9].val
      [] k \in {10, 12} -> e.op = "inb" /\ e.port = 47
      [] OTHER -> /\ e.op = "outb"
                  /\ e.port \in {(bar + 5) % 65536, (bar + 6) % 65536}

\* the base address composed from the bytes read back at log positions 9-12
BaseFromLog(log) ==
    IF log[9].val = 96 THEN log[10].val * 256 + log[12].val
    ELSE log[12].val * 256 + log[10].val

\* C9: the unlock bytes are issued once, then LDN 4 is selected, then the
\* device is activated, then 0x60/0x61 are read; every EC access comes
\* after these and goes to ecbar+5 / ecbar+6, and ecbar stays the value
\* read.  Stated on every step: the log only grows, each access it gains
\* is the one the order allows at its position, and from the twelfth access
\* on ecbar is the base that was read.
C9_SessionOrder ==
    [][ /\ Len(io') >= Len(io)
        /\ SubSeq(io', 1, Len(io)) = io
        /\ \A k \in (Len(io) + 1)..Len(io') : Allowed(k, io'[k], io', ecbar')
        /\ Len(io') >= 12 => ecbar' = BaseFromLog(io')
      ]_vars

\* the loop has written the PWM registers through the discovered base
C9_Witness ==
    /\ pc = "sleep" /\ iter = 2
    /\ ecbar = 2608
    /\ Cardinality(EcAccesses) = 16

\* ---- C10 ---------------------------------------------------------------
\* C10: when iopl is denied the program stops there: it executes no port
\* instruction and does not go on to the unlock sequence or the loop.
C10_DeniedIoplIsFatal ==
    (pc # "iopl" /\ iopl_ret = -1) => (pc = "exit" /\ io = <<>>)

\* ---- C11 ---------------------------------------------------------------
\* C11: when the drive list option is missing, or present with the empty
\* string, the program exits before any hardware access (no iopl, no port
\* instruction) and never enters the control loop.
C11_NoDeviceListIsFatal ==
    LET r == ParseArgs(argv, Defaults, NoList)
    IN  (r.ok /\ r.dl \in {NoList, <<>>})
            => (pc \in {"start", "exit"} /\ io = <<>> /\ iter = 0)

\* ---- C12 ---------------------------------------------------------------
\* the program locations one step of main leads to from each location of
\* the loop when no telemetry sink is connected
SinklessFlow ==
    { <<"loop", "drive">>, <<"drive", "drive">>, <<"drive", "cpu">>,
      <<"drive", "killed">>, <<"cpu", "timing">>, <<"timing", "pid">>,
      <<"timing", "sleep_skip">>, <<"sleep_skip", "loop">>,
      <<"pid", "write">>, <<"write", "sleep">>, <<"sleep", "loop">> }

\* C12: telemetry does not influence control, and no message is sent while
\* the sink is unconfigured or failed to open.  The sink is only written
\* to, so a run with the sink connected differs from the run without it on
\* the same readings and clock values only where the outcome of a send
\* changes what main does next.  Stated on every step: with the sink not
\* open no message has been sent, and every step of the loop leads where it
\* leads without a sink, whatever the state of the connection.
C12_TelemetryDoesNotInfluenceControl ==
    [][ /\ graphite_sockfd' <= 0 => sent' = 0
        /\ InLoop => <<pc, pc'>> \in SinklessFlow
      ]_vars

\* ---- C13 ---------------------------------------------------------------
\* C13: a send that fails on the established connection is not surfaced
\* and does not end the control loop: the step in which a send finds the
\* connection reset goes on within the loop, and inside the loop the
\* socket is neither reopened nor replaced (a failed connection stays
\* failed).
C13_SendFailureNotFatal ==
    [][ InLoop =>
          /\ (conn = "open" /\ conn' = "epipe") => pc' \in {"drive", "cpu", "timing", "write", "sleep"}
          /\ graphite_sockfd' = graphite_sockfd
          /\ conn = "epipe" => conn' = "epipe"
      ]_vars

\* ---- C14 ---------------------------------------------------------------
\* the gains and limits of the default configuration (kp 50, ki 0.5, kd 0,
\* imax 255 as numerators over GainDen)
DefaultGains ==
    /\ cfg.setpoint = 37 /\ cfg.pwminit = 128 /\ cfg.pwmmin = 80
    /\ cfg.kp = 50 * GainDen /\ 2 * cfg.ki = GainDen /\ cfg.kd = 0
    /\ cfg.imax = 255 * GainDen

\* C14: the PID step computes, from the state before the call,
\* integral' = clamp(integral + error*dt, -imax, imax), derivative =
\* (error - previousError)/dt, previousError' = error, and returns
\* trunc(clamp(pwmInit + kp*error + ki*integral' + kd*derivative, pwmMin,
\* 255)); with the default configuration a first call with error 3 and
\* dt 10 gives integral 30 and output 255, and a call with error -37 gives
\* output 80.  The clamps are stated for the intervals that hold a value
\* (imax >= 0, pwmMin <= 255); the arithmetic is exact, over the common
\* denominator GainDen * IntDen * dt.
C14_PidStep ==
    [][ pc = "pid" =>
          LET e == error'
              dt == timediff
              lim == cfg.imax * TicksPerSec
              acc == integral + e * dt * GainDen
              den == GainDen * IntDen * dt
              raw == cfg.pwminit * den
                     + cfg.kp * e * IntDen * dt
                     + cfg.ki * integral' * dt
                     + cfg.kd * (e - prev_error) * TicksPerSec * IntDen
              returned == pidcalls' = pidcalls + 1
          IN  /\ e = maxtemp - cfg.setpoint
              /\ cfg.imax >= 0 => integral' = Min(Max(acc, -lim), lim)
              /\ prev_error' = e
              /\ (returned /\ cfg.pwmmin <= pwmmax) =>
                    newPWM' = TruncDiv(Min(Max(raw, cfg.pwmmin * den),
                                           pwmmax * den), den)
              /\ (returned /\ DefaultGains /\ pidcalls = 0 /\ e = 3
                    /\ dt = 10 * TicksPerSec) =>
                    (integral' = 30 * IntDen /\ newPWM' = 255)
              /\ (returned /\ DefaultGains /\ e = -37) => newPWM' = 80
      ]_vars

\* the first call of a run with the default configuration has returned,
\* made with error 3 (drive at 40) ten seconds after the last poll
C14_Witness ==
    /\ pc = "write" /\ pidcalls = 1 /\ DefaultGains
    /\ error = 3 /\ timediff = 10 * TicksPerSec
    /\ integral = 30 * IntDen /\ newPWM = 255
    /\ maxtemp = 40 /\ cpu_avg_temp = 50

\* ---- C15 ---------------------------------------------------------------
\* C15: the PID step is never invoked with a zero or negative dt: wherever
\* main stands at the call, or has made it in this iteration, the time
\* delta of the iteration is positive, and an iteration sent to the
\* skipping sleep is one whose delta is not.
C15_PidNeverWithNonPositiveDt ==
    /\ pc \in {"pid", "write", "sleep"} => timediff > 0
    /\ pc = "sleep_skip" => timediff <= 0

\* the first iteration found a zero delta and sleeps without a PID call
C15_Witness ==
    /\ pc = "sleep_skip" /\ iter = 1 /\ timediff = 0 /\ pidcalls = 0
    /\ curtime = lasttime

\* ---- C16 ---------------------------------------------------------------
\* the four port writes that put duty value v into registers 0x6b and 0x73
DutyLog(bar, v) ==
    << [op |-> "outb", val |-> 107, port |-> (bar + 5) % 65536],
       [op |-> "outb", val |-> v, port |-> (bar + 6) % 65536],
       [op |-> "outb", val |-> 115, port |-> (bar + 5) % 65536],
       [op |-> "outb", val |-> v, port |-> (bar + 6) % 65536] >>

\* C16: in an iteration the events come in the order acquire (all drives,
\* then the CPU), aggregate, compute dt and update lastTime, PID step on
\* this iteration's error, hardware write, sleep; and the write uses the
\* PID output of the same iteration.  Stated on every step: each stage is
\* entered from the stage before it only, the PID step is the one that
\* leads to the write and leaves its result in pwm, and the write puts
\* that pwm into both registers and nothing touches the registers in
\* between.
C16_IterationOrder ==
    [][ /\ pc = "loop" => (pc' = "drive" /\ readings' = <<>> /\ maxtemp' = 0)
        /\ pc' = "cpu" => (pc = "drive" /\ Len(readings') = count)
        /\ pc' = "timing" =>
              (pc = "cpu" /\ Len(readings) = count /\ UNCHANGED readings)
        /\ pc' = "pid" =>
              /\ pc = "timing"
              /\ timediff' = clock - lasttime /\ lasttime' = clock
              /\ UNCHANGED <<maxtemp, io, pwm, pidcalls>>
        /\ pc' = "write" =>
              /\ pc = "pid"
              /\ error' = maxtemp - cfg.setpoint
              /\ pidcalls' = pidcalls + 1
              /\ pwm' = newPWM' % 256
              /\ UNCHANGED <<io, lasttime, maxtemp>>
        /\ pc = "write" =>
              /\ io' = io \o DutyLog(ecbar, pwm)
              /\ UNCHANGED <<pwm, newPWM, pidcalls, clock>>
        /\ pc' = "sleep" => pc = "write"
        /\ pc = "sleep" => (pc' = "loop" /\ UNCHANGED <<io, pwm, pidcalls>>)
      ]_vars

\* the second iteration has written its own PID output, 80, after the
\* first had written 255
C16_Witness ==
    /\ pc = "sleep" /\ iter = 2 /\ pidcalls = 2
    /\ Len(readings) = count
    /\ newPWM = 80 /\ pwm = 80
    /\ io[Len(io)].val = 80 /\ io[Len(io) - 2].val = 80
    /\ io[Len(io) - 4].val = 255

\* ---- C17 ---------------------------------------------------------------
\* the sum of the first n slots of the buffer
RECURSIVE StoredSum(_, _)
StoredSum(vals, n) == IF n = 0 THEN 0 ELSE vals[n - 1] + StoredSum(vals, n - 1)

LiveSpec == Spec /\ WF_vars(Next)

\* the process has been terminated by a signal
Terminated == pc \in {"killed", "sigpipe"}

\* every slot of the drive array names a device
Listed == \A k \in 1..count : drives[k] # Uninit

\* C18: once running, the loop never stops by itself, and with a positive
\* poll interval the PWM registers are written again and again; an
\* iteration skipped for a zero delta is followed by an iteration that
\* runs the PID step and the write.  For a run whose drive list names its
\* devices, within the MaxIter iterations of a run: the loop is never
\* left; from the top of the loop with two iterations to go, and from a
\* skipping sleep with one to go, a state with the registers just written
\* (the closing sleep) is reached.
C18_LoopKeepsWriting ==
    /\ []((InLoop /\ Listed) => [](InLoop))
    /\ (pc = "loop" /\ Listed /\ iter + 2 <= MaxIter /\ cfg.interval > 0)
          ~> (pc = "sleep" /\ ecreg[107] = pwm)
    /\ (pc = "sleep_skip" /\ Listed /\ iter + 1 <= MaxIter /\ cfg.interval > 0)
          ~> (pc = "sleep" /\ ecreg[107] = pwm)

\* what remains of C18 when the fatal signals are set aside: unless the
\* process is terminated (C11, C13), the registers are written again
C18_UnlessTerminated ==
    /\ (pc = "loop" /\ iter + 2 <= MaxIter /\ cfg.interval > 0)
          ~> (Terminated \/ (pc = "sleep" /\ ecreg[107] = pwm))
    /\ (pc = "sleep_skip" /\ iter + 1 <= MaxIter /\ cfg.interval > 0)
          ~> (Terminated \/ (pc = "sleep" /\ ecreg[107] = pwm))

\* ---- C19 ---------------------------------------------------------------
\* where main stands once the registers have been initialised, outside the
\* two statements between a PID result and its write
Settled == pc \in {"swmode", "setup", "loop", "drive", "cpu", "timing",
                   "sleep_skip", "pid", "sleep"}

CpuProbeNotStarted == pc = "cpu" /\ ~cpuread'

\* what such a step leaves alone, and the effective temperature it leaves
CpuFrame ==
    /\ UNCHANGED <<cputemp_values, cputemp_sum, cputemp_count, cputemp_index,
                   cpu_avg_temp>>
    /\ maxtemp' = SeqMax(TempsOf(readings))

====
